---- MODULE Spec2Model ----
(***************************************************************************)
(* The content validation and loading engine of src/src/lib/content.ts:    *)
(* the directory loaders, the integrity checks, the memoized dataset and   *)
(* its accessors, and the integration-time derivations.                    *)
(*                                                                         *)
(* Abstractions.  Strings that the code only compares for equality (ids,   *)
(* slugs) are strings here; strings that the code orders (file names,      *)
(* dates, titles, names, models) are natural numbers that stand for their  *)
(* rank in that order.  Fields of a document that no modelled statement    *)
(* reads are folded into the flag wellFormed of the raw document.  An      *)
(* optional string field is a sequence of length 0 (absent) or 1.          *)
(* One step of the model is one turn of the event loop: a call made by a   *)
(* client, or the completion of one fs.readdir / fs.readFile together with *)
(* the promise continuations that run before the next completion.          *)
(***************************************************************************)
EXTENDS Integers, Sequences, FiniteSets, TLC

\* ------------------------------------------------------------------ bounds
NumCallers == 2      \* clients that call into the module
MaxDate == 2         \* dates are 1..MaxDate
MaxRuns == 2         \* processes started one after another on the same content root
MaxSeconds == 7300   \* formatIntegrationSeconds is applied to 0..MaxSeconds
MaxAcquisitions == 2 \* acquisitions per image in the derivation inputs

Callers == 1..NumCallers
Dates == 1..MaxDate

\* ------------------------------------------------------- the content root
Dirs == {"images", "objects", "equipment", "locations"}

NA == "n/a"          \* a field of an error that its message does not carry

\* A directory entry: its name (rank in the order of Array.prototype.sort on
\* names), whether it is a regular .yml/.yaml file, and the parsed document.
File(name, raw) == [name |-> name, yaml |-> TRUE, raw |-> raw]
Other(name) == [name |-> name, yaml |-> FALSE, raw |-> [wellFormed |-> FALSE]]

Malformed == [wellFormed |-> FALSE]

None == <<>>
Some(x) == <<x>>

Acq(frames, exposure_s, filter) ==
    [frames |-> frames, exposure_s |-> exposure_s, filter_id |-> filter]

Equip(scope, mount, camera, filter) ==
    [scope_id |-> scope, mount_id |-> mount, camera_id |-> camera, filter_id |-> filter]

Image(id, date, loc, targets, equipment, acquisitions) ==
    [wellFormed |-> TRUE, id |-> id, date |-> date, location_id |-> loc,
     targets |-> targets, equipment |-> equipment, acquisitions |-> acquisitions]

Object(id, slug, title) ==
    [wellFormed |-> TRUE, id |-> id, slug |-> slug, title |-> title]

Equipment(id, slug, kind, model) ==
    [wellFormed |-> TRUE, id |-> id, slug |-> slug, kind |-> kind, model |-> model]

Location(id, slug, name) ==
    [wellFormed |-> TRUE, id |-> id, slug |-> slug, name |-> name]

\* --------------------------------------------------------- the schema layer
\* z.object(...).safeParse succeeds: the fields the model folds away are well
\* formed, targets and acquisitions are non-empty, and every acquisition has
\* a positive frame count and a positive exposure.
imageSchema(raw) ==
    /\ raw.wellFormed
    /\ Len(raw.targets) >= 1
    /\ Len(raw.acquisitions) >= 1
    /\ \A i \in 1..Len(raw.acquisitions) :
          raw.acquisitions[i].frames > 0 /\ raw.acquisitions[i].exposure_s > 0

objectSchema(raw) == raw.wellFormed

equipmentSchema(raw) ==
    raw.wellFormed /\ raw.kind \in {"scope", "mount", "camera", "filter"}

locationSchema(raw) == raw.wellFormed

SchemaOf(dir, raw) ==
    CASE dir = "images" -> imageSchema(raw)
      [] dir = "objects" -> objectSchema(raw)
      [] dir = "equipment" -> equipmentSchema(raw)
      [] dir = "locations" -> locationSchema(raw)

\* result.data of a successful safeParse: the declared fields of the document.
ParsedData(raw) == [f \in (DOMAIN raw) \ {"wellFormed"} |-> raw[f]]

\* ------------------------------------------------------------------ errors
Error(kind, dir, file, label, id, value) ==
    [kind |-> kind, dir |-> dir, file |-> file, label |-> label, id |-> id, value |-> value]

NoError == Error("none", NA, 0, NA, NA, NA)

\* `Invalid content in ${directory}/${fileName}: ...`
InvalidContent(dir, fileName) == Error("InvalidContent", dir, fileName, NA, NA, NA)
\* `Duplicate ${label} id: ${record.id}`
DuplicateId(label, id) == Error("DuplicateId", NA, 0, label, NA, id)
\* `Duplicate ${label} slug: ${record.slug}`
DuplicateSlug(label, slug) == Error("DuplicateSlug", NA, 0, label, NA, slug)
\* `Image ${image.id} references unknown location_id: ${image.location_id}`
UnknownLocation(imageId, ref) == Error("UnknownLocation", NA, 0, NA, imageId, ref)
\* `Image ${image.id} references unknown target: ${targetId}`
UnknownTarget(imageId, ref) == Error("UnknownTarget", NA, 0, NA, imageId, ref)
\* `Image ${image.id} references unknown equipment: ${equipmentId}`
UnknownEquipment(imageId, ref) == Error("UnknownEquipment", NA, 0, NA, imageId, ref)

\* ----------------------------------------------------------------- sorting
\* a.localeCompare(b) on two ranks.
localeCompare(a, b) == IF a < b THEN -1 ELSE IF a > b THEN 1 ELSE 0

KindRank(kind) ==
    CASE kind = "camera" -> 1 [] kind = "filter" -> 2
      [] kind = "mount" -> 3 [] kind = "scope" -> 4

compareImages_OldestFirst(a, b) == localeCompare(a.date, b.date)

compareImages(a, b) == localeCompare(b.date, a.date)
compareObjects(a, b) == localeCompare(a.title, b.title)
compareEquipment(a, b) ==
    LET byKind == localeCompare(KindRank(a.kind), KindRank(b.kind))
    IN  IF byKind # 0 THEN byKind ELSE localeCompare(a.model, b.model)
compareLocations(a, b) == localeCompare(a.name, b.name)
compareNames(a, b) == localeCompare(a.name, b.name)

\* The comparator handed to Array.prototype.sort at each of its call sites.
Compare(by, a, b) ==
    CASE by = "images" -> compareImages(a, b)
      [] by = "objects" -> compareObjects(a, b)
      [] by = "equipment" -> compareEquipment(a, b)
      [] by = "locations" -> compareLocations(a, b)
      [] by = "names" -> compareNames(a, b)

\* Array.prototype.sort with a comparator: stable (ECMAScript 2019), so it is
\* the insertion of each element after the last one that does not follow it.
Sort(s, by) ==
    LET Ins(acc, x) ==
            LET k == CHOOSE k \in 0..Len(acc) :
                        /\ \A i \in 1..k : Compare(by, acc[i], x) <= 0
                        /\ k < Len(acc) => Compare(by, acc[k + 1], x) > 0
            IN  SubSeq(acc, 1, k) \o <<x>> \o SubSeq(acc, k + 1, Len(acc))
        F[n \in 0..Len(s)] == IF n = 0 THEN <<>> ELSE Ins(F[n - 1], s[n])
    IN  F[Len(s)]

\* -------------------------------------------------- the integrity checker
RECURSIVE UniqueIdLoop(_, _, _, _)
UniqueIdLoop(records, label, i, ids) ==
    IF i > Len(records) THEN NoError
    ELSE IF records[i].id \in ids THEN DuplicateId(label, records[i].id)
    ELSE UniqueIdLoop(records, label, i + 1, ids \cup {records[i].id})

assertUniqueId(records, label) == UniqueIdLoop(records, label, 1, {})

RECURSIVE UniqueIdAndSlugLoop(_, _, _, _, _)
UniqueIdAndSlugLoop(records, label, i, ids, slugs) ==
    IF i > Len(records) THEN NoError
    ELSE IF records[i].id \in ids THEN DuplicateId(label, records[i].id)
    ELSE IF records[i].slug \in slugs THEN DuplicateSlug(label, records[i].slug)
    ELSE UniqueIdAndSlugLoop(records, label, i + 1,
                             ids \cup {records[i].id}, slugs \cup {records[i].slug})

assertUniqueIdAndSlug(records, label) == UniqueIdAndSlugLoop(records, label, 1, {}, {})

IdsOf(records) == {records[i].id : i \in 1..Len(records)}

\* Boolean(x) of a string: the empty string is falsy.
Truthy(x) == x # ""

\* [scope_id, mount_id, camera_id, filter_id].filter(Boolean): an absent
\* filter_id (undefined) and every empty string are dropped.
equipmentRefs(image) ==
    SelectSeq(<<image.equipment.scope_id, image.equipment.mount_id,
                image.equipment.camera_id>> \o image.equipment.filter_id,
              Truthy)

FirstNotIn(refs, ids) ==
    LET bad == {i \in 1..Len(refs) : refs[i] \notin ids}
    IN  IF bad = {} THEN 0 ELSE CHOOSE i \in bad : \A j \in bad : i <= j

\* The body of the loop of assertReferences for one image.
ImageReferenceError(image, objectIds, equipmentIds, locationIds) ==
    LET t == FirstNotIn(image.targets, objectIds)
        refs == equipmentRefs(image)
        e == FirstNotIn(refs, equipmentIds)
    IN  IF image.location_id \notin locationIds
           THEN UnknownLocation(image.id, image.location_id)
        ELSE IF t # 0 THEN UnknownTarget(image.id, image.targets[t])
        ELSE IF e # 0 THEN UnknownEquipment(image.id, refs[e])
        ELSE NoError

assertReferences(data) ==
    LET objectIds == IdsOf(data.objects)
        equipmentIds == IdsOf(data.equipment)
        locationIds == IdsOf(data.locations)
        err(i) == ImageReferenceError(data.images[i], objectIds, equipmentIds, locationIds)
        bad == {i \in 1..Len(data.images) : err(i) # NoError}
    IN  IF bad = {} THEN NoError
        ELSE err(CHOOSE i \in bad : \A j \in bad : i <= j)

\* ------------------------------------------------------ promises and data
SiteData(images, objects, equipment, locations) ==
    [images |-> images, objects |-> objects, equipment |-> equipment,
     locations |-> locations]

NoData == SiteData(<<>>, <<>>, <<>>, <<>>)

Promise(state, value, reason) == [state |-> state, value |-> value, reason |-> reason]
NoPromise == Promise("null", NoData, NoError)
Pending == Promise("pending", NoData, NoError)
Fulfilled(value) == Promise("fulfilled", value, NoError)
Rejected(reason) == Promise("rejected", NoData, reason)

FirstError(errors) ==
    LET bad == {i \in 1..Len(errors) : errors[i] # NoError}
    IN  IF bad = {} THEN NoError
        ELSE errors[CHOOSE i \in bad : \A j \in bad : i <= j]

\* loadSiteData after Promise.all has fulfilled: sort, assemble, check.
assemble(records) ==
    LET data == SiteData(Sort(records["images"], "images"),
                         Sort(records["objects"], "objects"),
                         Sort(records["equipment"], "equipment"),
                         Sort(records["locations"], "locations"))
        thrown == FirstError(<<assertUniqueId(data.images, "image"),
                              assertUniqueIdAndSlug(data.objects, "object"),
                              assertUniqueIdAndSlug(data.equipment, "equipment"),
                              assertUniqueIdAndSlug(data.locations, "location"),
                              assertReferences(data)>>)
    IN  IF thrown = NoError THEN Fulfilled(data) ELSE Rejected(thrown)

\* ------------------------------------------------------------ the accessors
\* Array.prototype.find over the indices that satisfy its predicate: the
\* element at the least of them, or undefined (None).
Find(s, hits) ==
    IF hits = {} THEN None ELSE Some(s[CHOOSE i \in hits : \A j \in hits : i <= j])

Includes(s, x) == \E i \in 1..Len(s) : s[i] = x

\* What each accessor returns once the getSiteData() it awaits has fulfilled
\* with data.  Array.prototype.find gives the first match or undefined (None).
getAllImages(data) == data.images
getAllObjects(data) == data.objects
getImageById(data, id) ==
    LET images == getAllImages(data)
    IN  Find(images, {i \in 1..Len(images) : images[i].id = id})
getObjectBySlug(data, slug) ==
    LET objects == getAllObjects(data)
    IN  Find(objects, {i \in 1..Len(objects) : objects[i].slug = slug})
getImagesForObject_FirstTarget(data, objectId) ==
    LET P(image) == image.targets[1] = objectId IN SelectSeq(getAllImages(data), P)

getImagesForObject(data, objectId) ==
    LET P(image) == Includes(image.targets, objectId) IN SelectSeq(getAllImages(data), P)

\* ------------------------------------------------ the derivation functions
\* Seconds are whole numbers here, so Math.floor(x / n) is x \div n and
\* Math.round(x % 60) is x % 60.
formatIntegrationSeconds_MinutesOfTotal(totalSeconds) ==
    LET hours == totalSeconds \div 3600
        minutes == totalSeconds \div 60
        seconds == totalSeconds % 60
    IN  IF hours > 0 THEN ToString(hours) \o "h " \o ToString(minutes) \o "m"
        ELSE IF minutes > 0 THEN ToString(minutes) \o "m " \o ToString(seconds) \o "s"
        ELSE ToString(seconds) \o "s"

formatIntegrationSeconds(totalSeconds) ==
    LET hours == totalSeconds \div 3600
        minutes == (totalSeconds % 3600) \div 60
        seconds == totalSeconds % 60
    IN  IF hours > 0 THEN ToString(hours) \o "h " \o ToString(minutes) \o "m"
        ELSE IF minutes > 0 THEN ToString(minutes) \o "m " \o ToString(seconds) \o "s"
        ELSE ToString(seconds) \o "s"

acquisitionIntegration(acquisition) == acquisition.frames * acquisition.exposure_s

\* image.acquisitions.reduce((total, a) => total + acquisitionIntegration(a), 0)
imageTotalIntegration(image) ==
    LET reduce[n \in 0..Len(image.acquisitions)] ==
            IF n = 0 THEN 0 ELSE reduce[n - 1] + acquisitionIntegration(image.acquisitions[n])
    IN  reduce[Len(image.acquisitions)]

\* ---------------------------------------------------------------- the state
VARIABLES
    content,    \* the content root: directory -> entries in listing order
    cache,      \* `let cache: Promise<SiteData> | null`
    loader,     \* the four readYamlDirectory calls of the load in flight
    loadStarts, \* calls of loadSiteData in this process
    dirReads,   \* fs.readdir calls per directory in this process
    caller,     \* each client: where it is, and what its await gave it
    run,        \* the number of the running process
    previous,   \* what the load of the process before this one settled to
    derived     \* the derivation functions: their input and what they returned

vars == <<content, cache, loader, loadStarts, dirReads, caller, run, previous, derived>>

\* entries.filter(isFile && .yml/.yaml).map(name).sort()
yamlFiles(entries) == LET P(entry) == entry.yaml IN Sort(SelectSeq(entries, P), "names")

NotStarted == [pc |-> "idle", next |-> 0, records |-> <<>>]
NoCall == [pc |-> "idle", settled |-> NoPromise]

\* loadSiteData up to its await: the four readYamlDirectory calls run to their
\* `await fs.readdir`, and Promise.all waits for them.
loadSiteData ==
    /\ loadStarts' = loadStarts + 1
    /\ dirReads' = [d \in Dirs |-> dirReads[d] + 1]
    /\ loader' = [d \in Dirs |-> [pc |-> "readdir", next |-> 0, records |-> <<>>]]
    /\ cache' = Pending

getSiteData_NoMemo ==
    loadSiteData

\* getSiteData up to its return: `if (!cache) cache = loadSiteData()`.
getSiteData ==
    IF cache.state = "null" THEN loadSiteData
    ELSE UNCHANGED <<cache, loader, loadStarts, dirReads>>

\* A client calls an entry point.  Each accessor starts by awaiting the one
\* below it, down to getSiteData, whose promise the client then awaits.
CallGetSiteData(c) ==
    /\ caller[c].pc = "idle"
    /\ getSiteData
    /\ caller' = [caller EXCEPT ![c].pc = "awaiting"]
    /\ UNCHANGED <<content, run, previous, derived>>

CallGetAllImages(c) == CallGetSiteData(c)
CallGetAllObjects(c) == CallGetSiteData(c)
CallGetImageById(c) == CallGetAllImages(c)
CallGetObjectBySlug(c) == CallGetAllObjects(c)
CallGetImagesForObject(c) == CallGetAllImages(c)

\* The awaited promise has settled and the client resumes with its outcome.
Resume(c) ==
    /\ caller[c].pc = "awaiting"
    /\ cache.state \in {"fulfilled", "rejected"}
    /\ caller' = [caller EXCEPT ![c] = [pc |-> "resumed", settled |-> cache]]
    /\ UNCHANGED <<content, cache, loader, loadStarts, dirReads, run, previous, derived>>

Returns_First(d, records) ==
    /\ loader' = [loader EXCEPT ![d] = [pc |-> "returned", next |-> 0, records |-> records]]
    /\ cache' = IF cache.state = "pending"
                   THEN assemble([e \in Dirs |-> IF e = d THEN records ELSE loader[e].records])
                   ELSE cache

\* readYamlDirectory returns its records; when it is the last of the four,
\* Promise.all fulfils and loadSiteData runs on to its return or throw.
Returns(d, records) ==
    /\ loader' = [loader EXCEPT ![d] = [pc |-> "returned", next |-> 0, records |-> records]]
    /\ cache' = IF cache.state = "pending" /\ \A e \in Dirs \ {d} : loader[e].pc = "returned"
                   THEN assemble([e \in Dirs |-> IF e = d THEN records ELSE loader[e].records])
                   ELSE cache

\* readYamlDirectory throws; Promise.all rejects with the first rejection, and
\* loadSiteData with it.  The other loaders are not cancelled.
Throws(d, reason) ==
    /\ loader' = [loader EXCEPT ![d] = [pc |-> "thrown", next |-> 0, records |-> <<>>]]
    /\ cache' = IF cache.state = "pending" THEN Rejected(reason) ELSE cache

\* fs.readdir of directory d completes.
ReaddirDone(d) ==
    /\ loader[d].pc = "readdir"
    /\ IF yamlFiles(content[d]) = <<>>
          THEN Returns(d, <<>>)
          ELSE /\ loader' = [loader EXCEPT ![d] = [pc |-> "readFile", next |-> 1, records |-> <<>>]]
               /\ UNCHANGED cache
    /\ UNCHANGED <<content, loadStarts, dirReads, caller, run, previous, derived>>

\* fs.readFile of the next file of directory d completes: parse, validate, push.
ReadFileDone(d) ==
    /\ loader[d].pc = "readFile"
    /\ LET files == yamlFiles(content[d])
           file == files[loader[d].next]
           records == Append(loader[d].records, ParsedData(file.raw))
       IN  IF ~SchemaOf(d, file.raw) THEN Throws(d, InvalidContent(d, file.name))
           ELSE IF loader[d].next = Len(files) THEN Returns(d, records)
           ELSE /\ loader' = [loader EXCEPT ![d] = [pc |-> "readFile",
                                                    next |-> loader[d].next + 1,
                                                    records |-> records]]
                /\ UNCHANGED cache
    /\ UNCHANGED <<content, loadStarts, dirReads, caller, run, previous, derived>>

Next ==
    \/ \E c \in Callers :
          \/ CallGetSiteData(c)
          \/ CallGetAllImages(c)
          \/ CallGetAllObjects(c)
          \/ CallGetImageById(c)
          \/ CallGetObjectBySlug(c)
          \/ CallGetImagesForObject(c)
          \/ Resume(c)
    \/ \E d \in Dirs : ReaddirDone(d) \/ ReadFileDone(d)

\* The process ends after its load has settled and the program is started
\* again on the same content root (the next build): module state is fresh.
NewProcess ==
    /\ run < MaxRuns
    /\ cache.state \in {"fulfilled", "rejected"}
    /\ run' = run + 1
    /\ previous' = cache
    /\ cache' = NoPromise
    /\ loader' = [d \in Dirs |-> NotStarted]
    /\ loadStarts' = 0
    /\ dirReads' = [d \in Dirs |-> 0]
    /\ caller' = [c \in Callers |-> NoCall]
    /\ UNCHANGED <<content, derived>>

NextRuns == Next \/ NewProcess

\* ------------------------------------------------------ the content roots
Root(images, objects, equipment, locations) ==
    [images |-> images, objects |-> objects, equipment |-> equipment,
     locations |-> locations]

BaseEquip == Equip("a", "a", "a", None)
BaseAcqs == <<Acq(1, 1, None)>>
BaseImage == Image("a", 1, "a", <<"a">>, BaseEquip, BaseAcqs)

BaseImages == <<File(1, BaseImage)>>
BaseObjects == <<File(1, Object("a", "s1", 1))>>
BaseEquipment == <<File(1, Equipment("a", "s1", "scope", 1))>>
BaseLocations == <<File(1, Location("a", "s1", 1))>>

TwoObjects == <<File(1, Object("a", "s1", 2)), File(2, Object("b", "s2", 1))>>

\* Three images of any dates, listed out of name order, over two objects.
DatedRoots ==
    {Root(<<File(2, Image("b", d2, "a", <<"b", "a">>, BaseEquip, BaseAcqs)),
            File(3, Image("c", d3, "a", <<"b">>, BaseEquip, BaseAcqs)),
            File(1, Image("a", d1, "a", <<"a">>, BaseEquip, BaseAcqs))>>,
          TwoObjects, BaseEquipment, BaseLocations) : d1 \in Dates, d2 \in Dates, d3 \in Dates}

\* Two images of one date with any targets among the two objects.
Targets == {<<"a">>, <<"b">>, <<"a", "b">>}
TargetRoots ==
    {Root(<<File(1, Image("a", 1, "a", t1, BaseEquip, BaseAcqs)),
            File(2, Image("b", 1, "a", t2, BaseEquip, BaseAcqs))>>,
          TwoObjects, BaseEquipment, BaseLocations) : t1 \in Targets, t2 \in Targets}

\* One image with one reference that may dangle ("b" names no record, and
\* neither does the empty string).
Refs == {"a", "b", ""}
OptRefs == {None} \cup {Some(r) : r \in Refs}
OneImage(image) == Root(<<File(1, image)>>, BaseObjects, BaseEquipment, BaseLocations)
RefRoots ==
    {OneImage(Image("a", 1, r, <<"a">>, BaseEquip, BaseAcqs)) : r \in Refs}
    \cup {OneImage(Image("a", 1, "a", <<"a", r>>, BaseEquip, BaseAcqs)) : r \in Refs}
    \cup {OneImage(Image("a", 1, "a", <<"a">>, Equip(r, "a", "a", None), BaseAcqs)) : r \in Refs}
    \cup {OneImage(Image("a", 1, "a", <<"a">>, Equip("a", r, "a", None), BaseAcqs)) : r \in Refs}
    \cup {OneImage(Image("a", 1, "a", <<"a">>, Equip("a", "a", r, None), BaseAcqs)) : r \in Refs}
    \cup {OneImage(Image("a", 1, "a", <<"a">>, Equip("a", "a", "a", f), BaseAcqs)) : f \in OptRefs}
    \cup {OneImage(Image("a", 1, "a", <<"a">>, BaseEquip, <<Acq(1, 1, f)>>)) : f \in OptRefs}

\* Duplicate ids and slugs.
DuplicateRoots ==
    {Root(BaseImages,
          <<File(1, Object("a", "s1", t1)), File(2, Object("a", "s2", 2)),
            File(3, Object("b", "s2", t3))>>,
          BaseEquipment, BaseLocations) : t1 \in {1, 3}, t3 \in {1, 3}}
    \cup {Root(BaseImages, BaseObjects,
               <<File(1, Equipment("a", "s1", k, 1)), File(2, Equipment("b", "s1", "mount", 1))>>,
               BaseLocations) : k \in {"scope", "camera"}}
    \cup {Root(<<File(1, Image("a", d, "a", <<"a">>, BaseEquip, BaseAcqs)),
                 File(2, Image("a", 1, "a", <<"a">>, BaseEquip, BaseAcqs))>>,
               BaseObjects, BaseEquipment, BaseLocations) : d \in Dates}
    \cup {Root(BaseImages, BaseObjects, BaseEquipment,
               <<File(1, Location("a", "s1", 1)), File(2, Location(i, s, 1))>>) :
            i \in {"a", "b"}, s \in {"s1", "s2"}}

\* Documents that fail their schema, in any of the directories.
OneDoc(dir) ==
    CASE dir = "images" -> BaseImages
      [] dir = "objects" -> BaseObjects
      [] dir = "equipment" -> BaseEquipment
      [] dir = "locations" -> BaseLocations
InvalidRoots ==
    {[d \in Dirs |-> IF d \in bad THEN <<File(1, Malformed)>> ELSE OneDoc(d)] :
        bad \in SUBSET Dirs}
    \cup {OneImage(Image("a", 1, "a", <<>>, BaseEquip, BaseAcqs)),
          OneImage(Image("a", 1, "a", <<"a">>, BaseEquip, <<>>)),
          OneImage(Image("a", 1, "a", <<"a">>, BaseEquip, <<Acq(0, 1, None)>>)),
          OneImage(Image("a", 1, "a", <<"a">>, BaseEquip, <<Acq(1, 0, None)>>)),
          Root(BaseImages, BaseObjects,
               <<File(1, Equipment("a", "s1", "tripod", 1))>>, BaseLocations),
          Root(<<File(1, BaseImage), File(2, Malformed)>>,
               <<File(1, Malformed), File(2, Object("a", "s1", 1))>>,
               BaseEquipment, BaseLocations),
          Root(<<Other(1), File(2, BaseImage)>>, BaseObjects, BaseEquipment,
               <<Other(2), File(1, Location("a", "s1", 1))>>),
          Root(<<>>, BaseObjects, <<Other(1)>>, BaseLocations),
          Root(BaseImages, BaseObjects, BaseEquipment, <<>>)}

Roots == DatedRoots \cup TargetRoots \cup RefRoots \cup DuplicateRoots \cup InvalidRoots

\* ----------------------------------------------------- the specifications
\* No derivation function has been applied.
NoImage == Malformed
NoDerivation == [image |-> NoImage, total |-> None, seconds |-> None, text |-> ""]

Init ==
    /\ content \in Roots
    /\ cache = NoPromise
    /\ loader = [d \in Dirs |-> NotStarted]
    /\ loadStarts = 0
    /\ dirReads = [d \in Dirs |-> 0]
    /\ caller = [c \in Callers |-> NoCall]
    /\ run = 1
    /\ previous = NoPromise
    /\ derived = NoDerivation

Spec == Init /\ [][Next]_vars

SpecRuns == Init /\ [][NextRuns]_vars

\* The derivation functions applied to bounded inputs: images whose
\* acquisitions are drawn from a few frame counts and exposures (the ones the
\* schema rejects among them), and every whole number of seconds to MaxSeconds.
FrameCounts == {0, 1, 2, 275}
Exposures == {0, 1, 45, 3600}
AcquisitionLists ==
    UNION {[1..n -> {Acq(f, e, None) : f \in FrameCounts, e \in Exposures}] :
              n \in 1..MaxAcquisitions}

InitDerive ==
    /\ content = Root(BaseImages, BaseObjects, BaseEquipment, BaseLocations)
    /\ cache = NoPromise
    /\ loader = [d \in Dirs |-> NotStarted]
    /\ loadStarts = 0
    /\ dirReads = [d \in Dirs |-> 0]
    /\ caller = [c \in Callers |-> NoCall]
    /\ run = 1
    /\ previous = NoPromise
    /\ \/ \E acqs \in AcquisitionLists :
             derived = [NoDerivation EXCEPT
                          !.image = Image("a", 1, "a", <<"a">>, BaseEquip, acqs)]
       \/ \E t \in 0..MaxSeconds : derived = [NoDerivation EXCEPT !.seconds = Some(t)]

\* imageTotalIntegration(image) for an image that passed imageSchema.
Integrate ==
    /\ derived.image # NoImage
    /\ imageSchema(derived.image)
    /\ derived.total = None
    /\ derived' = [derived EXCEPT !.total = Some(imageTotalIntegration(ParsedData(derived.image)))]
    /\ UNCHANGED <<content, cache, loader, loadStarts, dirReads, caller, run, previous>>

\* formatIntegrationSeconds(imageTotalIntegration(image)), as the pages do.
FormatTotal ==
    /\ derived.total # None
    /\ derived.seconds = None
    /\ derived' = [derived EXCEPT !.seconds = derived.total,
                                  !.text = formatIntegrationSeconds(derived.total[1])]
    /\ UNCHANGED <<content, cache, loader, loadStarts, dirReads, caller, run, previous>>

\* formatIntegrationSeconds(t) for a given whole number of seconds.
Format ==
    /\ derived.image = NoImage
    /\ derived.seconds # None
    /\ derived.text = ""
    /\ derived' = [derived EXCEPT !.text = formatIntegrationSeconds(derived.seconds[1])]
    /\ UNCHANGED <<content, cache, loader, loadStarts, dirReads, caller, run, previous>>

NextDerive == Integrate \/ FormatTotal \/ Format

SpecDerive == InitDerive /\ [][NextDerive]_vars

\* ================================================================ the claims
Settled == cache.state \in {"fulfilled", "rejected"}

\* The .yml/.yaml entries of a directory listing by ascending file name.
EntriesByName(entries) ==
    LET ys == {i \in 1..Len(entries) : entries[i].yaml}
        rank(i) == Cardinality({j \in ys : entries[j].name <= entries[i].name})
    IN  [k \in 1..Cardinality(ys) |-> entries[CHOOSE i \in ys : rank(i) = k]]

Documents(d) == EntriesByName(content[d])
InvalidFiles(d) == {k \in 1..Len(Documents(d)) : ~SchemaOf(d, Documents(d)[k].raw)}
InvalidDirs == {d \in Dirs : InvalidFiles(d) # {}}
FirstInvalidName(d) ==
    Documents(d)[CHOOSE k \in InvalidFiles(d) : \A j \in InvalidFiles(d) : k <= j].name

\* The records of a directory in the order they are loaded (all documents valid).
RecordsOf(d) == [k \in 1..Len(Documents(d)) |-> ParsedData(Documents(d)[k].raw)]

DistinctIds(records) ==
    \A i, j \in 1..Len(records) : i # j => records[i].id # records[j].id
DistinctSlugs(records) ==
    \A i, j \in 1..Len(records) : i # j => records[i].slug # records[j].slug

\* Every reference of section 4.3 of every image names a record of its kind.
ReferencesResolve(images, objects, equipment, locations) ==
    \A i \in 1..Len(images) :
       LET image == images[i]
       IN  /\ image.location_id \in IdsOf(locations)
           /\ \A t \in 1..Len(image.targets) : image.targets[t] \in IdsOf(objects)
           /\ image.equipment.scope_id \in IdsOf(equipment)
           /\ image.equipment.mount_id \in IdsOf(equipment)
           /\ image.equipment.camera_id \in IdsOf(equipment)
           /\ image.equipment.filter_id # None =>
                 image.equipment.filter_id[1] \in IdsOf(equipment)

Consistent(images, objects, equipment, locations) ==
    /\ DistinctIds(images)
    /\ DistinctIds(objects) /\ DistinctSlugs(objects)
    /\ DistinctIds(equipment) /\ DistinctSlugs(equipment)
    /\ DistinctIds(locations) /\ DistinctSlugs(locations)
    /\ ReferencesResolve(images, objects, equipment, locations)

\* C1: however many calls are made and however they interleave with the load,
\* loadSiteData is started at most once, each directory is read at most once,
\* and every caller that has resumed holds the one outcome of the cache.
C1_LoadedOnce ==
    /\ loadStarts <= 1
    /\ \A d \in Dirs : dirReads[d] <= 1
    /\ \A c \in Callers : caller[c].pc = "resumed" => caller[c].settled = cache
    /\ \A c1, c2 \in Callers :
          caller[c1].pc = "resumed" /\ caller[c2].pc = "resumed"
             => caller[c1].settled = caller[c2].settled

C1_Witness ==
    /\ loadStarts = 1
    /\ \A c \in Callers :
          caller[c].pc = "resumed" /\ caller[c].settled.state = "fulfilled"
    /\ Len(cache.value.images) >= 2

\* C2: every dataset that the load resolves to has distinct image ids,
\* distinct ids and slugs in objects, equipment and locations, and only
\* references that name loaded records, a present filter_id of any string
\* value included.
C2_DatasetIntegrity ==
    cache.state = "fulfilled" =>
       Consistent(cache.value.images, cache.value.objects,
                  cache.value.equipment, cache.value.locations)

\* C3: when a document fails its schema, or the loaded collections hold a
\* duplicate id, a duplicate slug or a dangling reference, the load never
\* fulfils, every caller that resumes holds the failure, and the load is
\* started once only.
C3_FailureIsFatal ==
    (\/ InvalidDirs # {}
     \/ ~Consistent(RecordsOf("images"), RecordsOf("objects"),
                    RecordsOf("equipment"), RecordsOf("locations")))
    => /\ cache.state # "fulfilled"
       /\ \A c \in Callers : caller[c].pc = "resumed" => caller[c].settled.state = "rejected"
       /\ loadStarts <= 1

\* C4: the duplicate that a failed load reports is the first one met when the
\* records of each collection are scanned in the order they were loaded
\* (file-name order), whatever their titles, names, dates, kinds or models.
C4_FirstDuplicateInFileOrder ==
    (cache.state = "rejected" /\ cache.reason.kind \in {"DuplicateId", "DuplicateSlug"})
    => cache.reason = FirstError(<<assertUniqueId(RecordsOf("images"), "image"),
                                   assertUniqueIdAndSlug(RecordsOf("objects"), "object"),
                                   assertUniqueIdAndSlug(RecordsOf("equipment"), "equipment"),
                                   assertUniqueIdAndSlug(RecordsOf("locations"), "location")>>)

\* C5: a load whose equipment directory holds two documents with one slug and
\* different ids fails with a duplicate-slug error that names the ids of both.
C5_DuplicateSlugNamesBoth ==
    \A i, j \in 1..Len(Documents("equipment")) :
       (/\ Settled
        /\ InvalidDirs = {}
        /\ RecordsOf("equipment")[i].slug = RecordsOf("equipment")[j].slug
        /\ RecordsOf("equipment")[i].id # RecordsOf("equipment")[j].id)
       => /\ cache.state = "rejected"
          /\ cache.reason.kind = "DuplicateSlug"
          /\ {RecordsOf("equipment")[i].id, RecordsOf("equipment")[j].id}
                \subseteq {cache.reason.label, cache.reason.id, cache.reason.value}

\* C6: in a dataset that the load resolves to, the filter_id of every
\* acquisition that carries one names a loaded Equipment record.
C6_AcquisitionFiltersResolve ==
    cache.state = "fulfilled" =>
       \A i \in 1..Len(cache.value.images) :
          \A k \in 1..Len(cache.value.images[i].acquisitions) :
             LET f == cache.value.images[i].acquisitions[k].filter_id
             IN  f # None => f[1] \in IdsOf(cache.value.equipment)

\* C7: the images of a loaded dataset are the loaded image records, each once,
\* by non-increasing date, and images of one date keep the order of their files.
C7_ImagesNewestFirstStable ==
    cache.state = "fulfilled" =>
       LET images == cache.value.images
           files == RecordsOf("images")
           FileOf(image) == CHOOSE k \in 1..Len(files) : files[k] = image
       IN  /\ Len(images) = Len(files)
           /\ \A k \in 1..Len(files) : \E i \in 1..Len(images) : images[i] = files[k]
           /\ \A i, j \in 1..Len(images) :
                 i < j => /\ images[i].date >= images[j].date
                          /\ images[i].date = images[j].date
                                => FileOf(images[i]) < FileOf(images[j])

C7_Witness ==
    /\ cache.state = "fulfilled"
    /\ Len(cache.value.images) = 3
    /\ cache.value.images[1].date > cache.value.images[3].date
    /\ cache.value.images[1].date = cache.value.images[2].date
    /\ cache.value.images # RecordsOf("images")

Probes == {"a", "b", "c", "", "s1", "s2", "s3"}

LookupsRight(data) ==
    \A x \in Probes :
       LET hits == {i \in 1..Len(data.images) :
                      \E t \in 1..Len(data.images[i].targets) : data.images[i].targets[t] = x}
           nth(k) == CHOOSE i \in hits : Cardinality({j \in hits : j <= i}) = k
           forObject == getImagesForObject(data, x)
           byId == getImageById(data, x)
           bySlug == getObjectBySlug(data, x)
       IN  /\ Len(forObject) = Cardinality(hits)
           /\ \A k \in 1..Len(forObject) : forObject[k] = data.images[nth(k)]
           /\ x \notin IdsOf(data.objects) => forObject = <<>>
           /\ IF \E i \in 1..Len(data.images) : data.images[i].id = x
                 THEN \E i \in 1..Len(data.images) :
                         data.images[i].id = x /\ byId = Some(data.images[i])
                 ELSE byId = None
           /\ IF \E i \in 1..Len(data.objects) : data.objects[i].slug = x
                 THEN \E i \in 1..Len(data.objects) :
                         data.objects[i].slug = x /\ bySlug = Some(data.objects[i])
                 ELSE bySlug = None

\* C8: on a loaded dataset getImagesForObject(x) is exactly the images whose
\* targets hold x, in the order of the images collection (empty for an
\* unknown id), getImageById and getObjectBySlug give the matching record or
\* the not-found value, and no step changes the cached dataset.
C8_Lookups ==
    /\ [](cache.state = "fulfilled" => LookupsRight(cache.value))
    /\ [][cache.state = "fulfilled" => cache' = cache]_vars

C8_Witness ==
    /\ cache.state = "fulfilled"
    /\ \E c \in Callers : caller[c].pc = "resumed"
    /\ Len(cache.value.images) = 2
    /\ Len(getImagesForObject(cache.value, "a")) = 1
    /\ Len(getImagesForObject(cache.value, "b")) = 2
    /\ getImagesForObject(cache.value, "c") = <<>>
    /\ getImageById(cache.value, "c") = None
    /\ getImageById(cache.value, "b") # None
    /\ getObjectBySlug(cache.value, "s2") # None
    /\ getObjectBySlug(cache.value, "s3") = None

RECURSIVE SumOfProducts(_)
SumOfProducts(acquisitions) ==
    IF acquisitions = <<>> THEN 0
    ELSE Head(acquisitions).frames * Head(acquisitions).exposure_s
            + SumOfProducts(Tail(acquisitions))

Rendered(t) ==
    IF t >= 3600 THEN ToString(t \div 3600) \o "h " \o ToString((t % 3600) \div 60) \o "m"
    ELSE IF t >= 60 THEN ToString(t \div 60) \o "m " \o ToString(t % 60) \o "s"
    ELSE ToString(t) \o "s"

\* C9: for a validated image every acquisitionIntegration is non-negative and
\* imageTotalIntegration is their sum (275 frames of 45 s give 12375); and
\* formatIntegrationSeconds(t) of a whole t >= 0 is hours and minutes when
\* t >= 3600, else minutes and seconds when t >= 60, else seconds (12375
\* renders as "3h 26m").
C9_Integration ==
    /\ derived.total # None =>
          LET acquisitions == derived.image.acquisitions
          IN  /\ \A i \in 1..Len(acquisitions) : acquisitionIntegration(acquisitions[i]) >= 0
              /\ derived.total[1] = SumOfProducts(acquisitions)
              /\ acquisitions = <<Acq(275, 45, None)>> => derived.total[1] = 12375
    /\ derived.text # "" =>
          /\ derived.text = Rendered(derived.seconds[1])
          /\ derived.seconds[1] = 12375 => derived.text = "3h 26m"

C9_Witness ==
    /\ derived.total = Some(12375)
    /\ derived.text = "3h 26m"

\* C10 as stated: the outcome of the load of a content root is the same in
\* every interleaving of the four loaders, so two processes on one content
\* root settle to the same dataset or the same error.
C10_SameOutcomeEveryInterleaving ==
    (Settled /\ previous.state # "null") => cache = previous

\* C10 as amended: a load over a root with an invalid document always fails,
\* with the error of the first invalid file of one of the directories that
\* hold one; two processes on one content root both succeed or both fail, and
\* settle to the same dataset or error unless several directories hold an
\* invalid document.
C10_OutcomeUpToFirstInvalid ==
    /\ (Settled /\ InvalidDirs # {}) =>
          /\ cache.state = "rejected"
          /\ \E d \in InvalidDirs : cache.reason = InvalidContent(d, FirstInvalidName(d))
    /\ (cache.state = "rejected" /\ cache.reason.kind = "InvalidContent") => InvalidDirs # {}
    /\ (Settled /\ previous.state # "null") =>
          /\ cache.state = previous.state
          /\ Cardinality(InvalidDirs) <= 1 => cache = previous

C10_Witness ==
    /\ run = 2
    /\ Settled
    /\ Cardinality(InvalidDirs) >= 2
    /\ cache.reason # previous.reason

====
